---- MODULE Spec2Model ----
(***************************************************************************)
(* Verification model of the venus-protocol-interface hooks:               *)
(*   - useBridgeForm: the XVS bridge form, its zod schema (the amount      *)
(*     validator validateAmountMantissa), the toChainId ref that keys the  *)
(*     bridge status query, and the chain-sync effect;                     *)
(*   - ChainSelect: the header dropdown that switches the wallet chain;    *)
(*   - useGetLegacyPool: the enabled flag of the legacy pool query and the *)
(*     dependencies its query function passes to callOrThrow.              *)
(***************************************************************************)
EXTENDS Integers, Sequences, FiniteSets

VARIABLES
    chains,               \* the chains of the build ('packages/wallet' chains)
    chainId,              \* useChainId(): the wallet's chain
    form,                 \* react-hook-form values: fromChainId, toChainId, amountTokens
    toChainIdRef,         \* toChainIdRef.current
    tokenPriceData,       \* useGetTokenUsdPrice(): data
    walletBalanceTokens,  \* the walletBalanceTokens prop
    statusCache,          \* chains whose useGetXvsBridgeStatus query has resolved
    render,               \* what the latest render of useBridgeForm closed over
    pc,                   \* "dirty": a render is due; "effects": rendered, effects due; "idle"
    validation,           \* outcome of the latest run of the form's resolver
    deps,                 \* useGetLegacyPool: which tokens / contracts are defined
    optionsEnabled,       \* useGetLegacyPool: options?.enabled
    query                 \* useGetLegacyPool: state of the react-query query function

vars == <<chains, chainId, form, toChainIdRef, tokenPriceData, walletBalanceTokens,
          statusCache, render, pc, validation, deps, optionsEnabled, query>>

bridgeVars == <<chains, chainId, form, toChainIdRef, tokenPriceData, walletBalanceTokens,
                statusCache, render, pc, validation>>

legacyVars == <<deps, optionsEnabled, query>>

\* JavaScript's undefined, where a chain id is expected.
Undefined == "undefined"

----------------------------------------------------------------------------
(* Bounds of the model.                                                    *)

\* Longest amountTokens string drawn for the schema.
MaxAmountLen == 2

\* Largest token price, in USD, the price query resolves to.
MaxPriceUsd == 2

\* Characters an amountTokens string is made of: digits, the decimal point
\* and a letter.
AmountChars == {"0", "1", "5", ".", "a"}

RECURSIVE StringsUpTo(_)
StringsUpTo(n) ==
    IF n = 0 THEN {<<>>}
    ELSE LET shorter == StringsUpTo(n - 1)
         IN  shorter \cup {Append(s, c) : s \in {t \in shorter : Len(t) = n - 1},
                                         c \in AmountChars}

AmountStrings == StringsUpTo(MaxAmountLen)

\* Amount strings the user types in the specifications of the whole hook.
TypedAmounts == {<<>>, <<"5">>, <<"1", "0">>, <<"a">>}

WalletBalances == {0, 1, 5, 10}

\* Balances the wallet holds in the specifications of the whole hook.
HeldBalances == {0, 5}

----------------------------------------------------------------------------
(* BigNumber (bignumber.js): a finite value is the fraction n/d in lowest  *)
(* terms with d > 0; NaN and +-Infinity are values, no operation throws.   *)
(* dividedBy keeps the exact quotient: bignumber.js rounds it to 20        *)
(* decimal places, and the hook only hands quotients to the formatters.    *)

RECURSIVE GCD(_, _)
GCD(a, b) == IF b = 0 THEN a ELSE GCD(b, a % b)

Abs(x) == IF x < 0 THEN -x ELSE x

Sign(x) == IF x < 0 THEN -1 ELSE IF x > 0 THEN 1 ELSE 0

NaN == [k |-> "nan", n |-> 0, d |-> 1]

Infinity(s) == [k |-> "inf", n |-> s, d |-> 1]

Fraction(n, d) ==
    LET g == GCD(Abs(n), Abs(d))
    IN  [k |-> "fin", n |-> (Sign(d) * n) \div g, d |-> Abs(d) \div g]

BigNumber(i) == Fraction(i, 1)

isNaN(a) == a.k = "nan"

isFinite(a) == a.k = "fin"

isZero(a) == a.k = "fin" /\ a.n = 0

times(a, b) ==
    IF isNaN(a) \/ isNaN(b) THEN NaN
    ELSE IF isFinite(a) /\ isFinite(b) THEN Fraction(a.n * b.n, a.d * b.d)
    ELSE IF isZero(a) \/ isZero(b) THEN NaN
    ELSE Infinity(Sign(a.n) * Sign(b.n))

minus(a, b) ==
    IF isNaN(a) \/ isNaN(b) THEN NaN
    ELSE IF isFinite(a) /\ isFinite(b) THEN Fraction(a.n * b.d - b.n * a.d, a.d * b.d)
    ELSE IF isFinite(b) THEN a
    ELSE IF isFinite(a) THEN Infinity(-b.n)
    ELSE IF a.n = b.n THEN NaN ELSE a

dividedBy(a, b) ==
    IF isNaN(a) \/ isNaN(b) THEN NaN
    ELSE IF ~isFinite(a) THEN (IF ~isFinite(b) THEN NaN
                               ELSE Infinity(IF b.n < 0 THEN -a.n ELSE a.n))
    ELSE IF ~isFinite(b) THEN BigNumber(0)
    ELSE IF b.n = 0 THEN (IF a.n = 0 THEN NaN ELSE Infinity(Sign(a.n)))
    ELSE Fraction(a.n * b.d, a.d * b.n)

\* -1, 0 or 1 for two values that are not NaN.
compare(a, b) ==
    IF isFinite(a) /\ isFinite(b) THEN Sign(a.n * b.d - b.n * a.d)
    ELSE IF isFinite(a) THEN -b.n
    ELSE IF isFinite(b) THEN a.n
    ELSE Sign(a.n - b.n)

gt(a, b) == ~isNaN(a) /\ ~isNaN(b) /\ compare(a, b) = 1

lt(a, b) == ~isNaN(a) /\ ~isNaN(b) /\ compare(a, b) = -1

lte(a, b) == ~isNaN(a) /\ ~isNaN(b) /\ compare(a, b) # 1

----------------------------------------------------------------------------
(* new BigNumber(v) for a string v of AmountChars: digits with at most one *)
(* decimal point and at least one digit, anything else is NaN.             *)

isDigit(c) == c \in {"0", "1", "2", "3", "4", "5", "6", "7", "8", "9"}

digitValue(c) ==
    CASE c = "0" -> 0 [] c = "1" -> 1 [] c = "2" -> 2 [] c = "3" -> 3 [] c = "4" -> 4
      [] c = "5" -> 5 [] c = "6" -> 6 [] c = "7" -> 7 [] c = "8" -> 8 [] c = "9" -> 9

RECURSIVE digitsValue(_)
digitsValue(s) ==
    IF s = <<>> THEN 0
    ELSE 10 * digitsValue(SubSeq(s, 1, Len(s) - 1)) + digitValue(s[Len(s)])

RECURSIVE pow10(_)
pow10(e) == IF e = 0 THEN 1 ELSE 10 * pow10(e - 1)

isNumeric(v) ==
    LET dots == {i \in 1..Len(v) : v[i] = "."}
    IN  /\ \A i \in 1..Len(v) : isDigit(v[i]) \/ v[i] = "."
        /\ Cardinality(dots) <= 1
        /\ \E i \in 1..Len(v) : isDigit(v[i])

BigNumberOf(v) ==
    IF ~isNumeric(v) THEN NaN
    ELSE LET dots     == {i \in 1..Len(v) : v[i] = "."}
             dot      == IF dots = {} THEN Len(v) + 1 ELSE CHOOSE i \in dots : TRUE
             integer  == SubSeq(v, 1, dot - 1)
             fraction == SubSeq(v, dot + 1, Len(v))
         IN  Fraction(digitsValue(integer \o fraction), pow10(Len(fraction)))

----------------------------------------------------------------------------
(* Data of the queries useBridgeForm consumes.                             *)

NoData == [defined |-> FALSE]

PriceData(p) == [defined |-> TRUE, tokenPriceUsd |-> BigNumber(p)]

\* What useGetTokenUsdPrice can hold: nothing yet, or a price.
TokenPriceDatas == {NoData} \cup {PriceData(p) : p \in 0..MaxPriceUsd}

BridgeStatus(single, daily, transferred, reset) ==
    [defined |-> TRUE,
     maxSingleTransactionLimitUsd  |-> BigNumber(single),
     maxDailyLimitUsd              |-> BigNumber(daily),
     totalTransferredLast24HourUsd |-> BigNumber(transferred),
     dailyLimitResetTimestamp      |-> BigNumber(reset)]

\* Bridge statuses the validator is tried on: room left in the daily limit,
\* little room left, and more transferred than the daily limit allows.
BridgeStatuses ==
    {BridgeStatus(10, 50, 0, 0),
     BridgeStatus(5, 20, 18, 86399),
     BridgeStatus(100, 10, 12, 1700000000)}

\* useGetXvsBridgeStatus({ toChainId }): the status of the bridge towards a chain.
getXvsBridgeStatus(toChainId) ==
    CASE toChainId = "BSC_MAINNET" -> BridgeStatus(10, 50, 0, 0)
      [] toChainId = "ETHEREUM"    -> BridgeStatus(5, 20, 18, 86399)
      [] toChainId = "BSC_TESTNET" -> BridgeStatus(10, 50, 0, 0)
      [] toChainId = "SEPOLIA"     -> BridgeStatus(100, 10, 12, 1700000000)

----------------------------------------------------------------------------
(* Values useBridgeForm derives in a render r (its useMemo hooks).         *)

xvsPriceUsd(r) ==
    IF r.getTokenUsdPriceData.defined THEN r.getTokenUsdPriceData.tokenPriceUsd
    ELSE BigNumber(0)

maxSingleTransactionLimitUsd(r) ==
    IF r.getXvsBridgeStatusData.defined
    THEN r.getXvsBridgeStatusData.maxSingleTransactionLimitUsd
    ELSE BigNumber(0)

dailyLimitResetTimestamp(r) ==
    IF r.getXvsBridgeStatusData.defined
    THEN r.getXvsBridgeStatusData.dailyLimitResetTimestamp
    ELSE BigNumber(0)

remainingXvsDailyLimitUsd(r) ==
    IF r.getXvsBridgeStatusData.defined
    THEN minus(r.getXvsBridgeStatusData.maxDailyLimitUsd,
               r.getXvsBridgeStatusData.totalTransferredLast24HourUsd)
    ELSE BigNumber(0)

\* A bug: the remaining tokens without the guard on a zero price.
remainingXvsDailyLimitTokensUnguarded(r) ==
    IF r.getXvsBridgeStatusData.defined
    THEN dividedBy(remainingXvsDailyLimitUsd(r), xvsPriceUsd(r))
    ELSE BigNumber(0)

remainingXvsDailyLimitTokens(r) ==
    IF r.getXvsBridgeStatusData.defined
    THEN IF ~isZero(xvsPriceUsd(r))
         THEN dividedBy(remainingXvsDailyLimitUsd(r), xvsPriceUsd(r))
         ELSE BigNumber(0)
    ELSE BigNumber(0)

----------------------------------------------------------------------------
(* validateAmountMantissa and the form schema.  An issue keeps the values  *)
(* handed to the formatters and to the translation, not the message text.  *)

\* date-fns fromUnixTime: a calendar day and the second within it.
fromUnixTime(ts) == [day |-> ts \div 86400, sec |-> ts % 86400]

\* A bug: the reset date without date.setDate(date.getDate() + 1).
dailyLimitResetDateSameDay(r) == fromUnixTime(dailyLimitResetTimestamp(r).n)

dailyLimitResetDate(r) ==
    LET date == fromUnixTime(dailyLimitResetTimestamp(r).n)
    IN  [date EXCEPT !.day = date.day + 1]

isSingleTransactionLimitExceeded(v, r) ==
    gt(times(BigNumberOf(v), xvsPriceUsd(r)), maxSingleTransactionLimitUsd(r))

isDailyTransactionLimitExceeded(v, r) ==
    gt(times(BigNumberOf(v), xvsPriceUsd(r)), remainingXvsDailyLimitUsd(r))

\* A bug: lte in place of lt, the whole balance cannot be bridged.
doesNotHaveEnoughXvsLte(v, r) == lte(BigNumber(r.walletBalanceTokens), BigNumberOf(v))

doesNotHaveEnoughXvs(v, r) == lt(BigNumber(r.walletBalanceTokens), BigNumberOf(v))

singleTransactionLimitExceeded(r) ==
    [code |-> "custom", path |-> "singleTransactionLimitExceeded",
     readableAmountTokens |-> dividedBy(maxSingleTransactionLimitUsd(r), xvsPriceUsd(r)),
     readableAmountUsd    |-> maxSingleTransactionLimitUsd(r)]

dailyTransactionLimitExceeded(r) ==
    [code |-> "custom", path |-> "dailyTransactionLimitExceeded",
     readableAmountTokens |-> remainingXvsDailyLimitTokens(r),
     readableAmountUsd    |-> remainingXvsDailyLimitUsd(r),
     date                 |-> dailyLimitResetDate(r)]

doesNotHaveEnoughXvsIssue == [code |-> "custom", path |-> "doesNotHaveEnoughXvs"]

\* A bug: an else-if chain, only the first violation is reported.
validateAmountMantissaFirstOnly(v, r) ==
    IF isSingleTransactionLimitExceeded(v, r) THEN <<singleTransactionLimitExceeded(r)>>
    ELSE IF isDailyTransactionLimitExceeded(v, r) THEN <<dailyTransactionLimitExceeded(r)>>
    ELSE IF doesNotHaveEnoughXvs(v, r) THEN <<doesNotHaveEnoughXvsIssue>>
    ELSE <<>>

\* The issues ctx.addIssue collects, in the order they are added.
validateAmountMantissa(v, r) ==
    (IF isSingleTransactionLimitExceeded(v, r)
     THEN <<singleTransactionLimitExceeded(r)>> ELSE <<>>)
    \o (IF isDailyTransactionLimitExceeded(v, r)
        THEN <<dailyTransactionLimitExceeded(r)>> ELSE <<>>)
    \o (IF doesNotHaveEnoughXvs(v, r) THEN <<doesNotHaveEnoughXvsIssue>> ELSE <<>>)

\* formSchema.amountTokens: z.string().min(1).superRefine(validateAmountMantissa).
\* A failed min(1) does not abort the parse, the refinement still runs.
amountTokensIssues(v, r) ==
    (IF Len(v) < 1 THEN <<[code |-> "too_small", path |-> "amountTokens"]>> ELSE <<>>)
    \o validateAmountMantissa(v, r)

NotValidated ==
    [done |-> FALSE, amountTokens |-> <<>>, issues |-> <<>>,
     formToChainId |-> Undefined, statusToChainId |-> Undefined, rendered |-> FALSE]

\* zodResolver(formSchema) run on the form values f with the schema of render r.
resolve(f, r, rendered) ==
    [done            |-> TRUE,
     amountTokens    |-> f.amountTokens,
     issues          |-> amountTokensIssues(f.amountTokens, r),
     formToChainId   |-> f.toChainId,
     statusToChainId |-> IF r.getXvsBridgeStatusData.defined THEN r.toChainId ELSE Undefined,
     rendered        |-> rendered]

----------------------------------------------------------------------------
(* The chains of the build and the form's default values.                  *)

MainnetChains == <<"BSC_MAINNET", "ETHEREUM">>

TestnetChains == <<"BSC_TESTNET", "SEPOLIA">>

ChainLists == {MainnetChains, TestnetChains}

ChainIds(cs) == {cs[i] : i \in 1..Len(cs)}

nativeCurrencyName(c) ==
    CASE c \in {"BSC_MAINNET", "BSC_TESTNET"} -> "BNB"
      [] c = "ETHEREUM"                      -> "Ether"
      [] c = "SEPOLIA"                       -> "Sepolia Ether"

\* chains.find(chain => chain.id !== id)?.id
firstChainOtherThan(cs, id) ==
    LET found == {i \in 1..Len(cs) : cs[i] # id}
    IN  IF found = {} THEN Undefined
        ELSE cs[CHOOSE i \in found : \A j \in found : i <= j]

\* chains.find(c => c.nativeCurrency.name === 'BNB')?.id
bscChainId(cs) ==
    LET found == {i \in 1..Len(cs) : nativeCurrencyName(cs[i]) = "BNB"}
    IN  IF found = {} THEN Undefined
        ELSE cs[CHOOSE i \in found : \A j \in found : i <= j]

defaultValues(cs, id) ==
    [fromChainId |-> id, toChainId |-> firstChainOtherThan(cs, id), amountTokens |-> <<>>]

\* Before the first render nothing is closed over.
NotRendered(id) ==
    [toChainId |-> Undefined, getXvsBridgeStatusData |-> NoData,
     getTokenUsdPriceData |-> NoData, walletBalanceTokens |-> 0,
     chainId |-> id, formFromChainId |-> id]

----------------------------------------------------------------------------
(* useGetLegacyPool.                                                       *)

Dependencies ==
    {"xvs", "legacyPoolComptrollerContract", "venusLensContract",
     "resilientOracleContract", "vai", "vaiControllerContract"}

\* options?.enabled
EnabledOptions == {"undefined", "true", "false"}

isQueryEnabled(d, enabled) ==
    /\ d["legacyPoolComptrollerContract"]
    /\ d["venusLensContract"]
    /\ d["vai"]
    /\ d["vaiControllerContract"]
    /\ (enabled = "undefined" \/ enabled = "true")

\* The parameters the query function hands to callOrThrow.
callOrThrowParams ==
    {"xvs", "legacyPoolComptrollerContract", "venusLensContract",
     "resilientOracleContract", "vai", "vaiControllerContract"}

\* callOrThrow throws when one of its parameters is undefined.
callOrThrowThrows(d) == \E p \in callOrThrowParams : ~d[p]

\* The hook before its tokens and contracts resolve, called without options.
LegacyIdle ==
    /\ deps = [p \in Dependencies |-> FALSE]
    /\ optionsEnabled = "undefined"
    /\ query = "idle"

\* A token or a contract becomes available, or stops being (the chain changed).
DependencyChanged(p) ==
    /\ deps' = [deps EXCEPT ![p] = ~deps[p]]
    /\ query' = "idle"
    /\ UNCHANGED <<optionsEnabled, bridgeVars>>

\* The caller renders the hook with another options.enabled.
OptionsChanged(e) ==
    /\ e # optionsEnabled
    /\ optionsEnabled' = e
    /\ UNCHANGED <<deps, query, bridgeVars>>

\* react-query runs the query function of an enabled query.
QueryFn ==
    /\ isQueryEnabled(deps, optionsEnabled)
    /\ query = "idle"
    /\ query' = IF callOrThrowThrows(deps) THEN "error" ELSE "success"
    /\ UNCHANGED <<deps, optionsEnabled, bridgeVars>>

NextLegacyPool ==
    \/ \E p \in Dependencies : DependencyChanged(p)
    \/ \E e \in EnabledOptions : OptionsChanged(e)
    \/ QueryFn

----------------------------------------------------------------------------
(* useBridgeForm.                                                          *)

InitBridge ==
    /\ chains \in ChainLists
    /\ chainId \in ChainIds(chains)
    /\ form = defaultValues(chains, chainId)
    /\ toChainIdRef = Undefined
    /\ tokenPriceData \in TokenPriceDatas
    /\ walletBalanceTokens \in HeldBalances
    /\ statusCache = {}
    /\ render = NotRendered(chainId)
    /\ pc = "mount"
    /\ validation = NotValidated

\* One render of the hook: the status query is keyed by the ref as the
\* previous render left it, and the ref is then set to the form's toChainId.
Render ==
    /\ pc \in {"mount", "dirty"}
    /\ LET toChainId == toChainIdRef
           enabled   == toChainId # Undefined
       IN  render' = [toChainId              |-> toChainId,
                      getXvsBridgeStatusData |-> IF enabled /\ toChainId \in statusCache
                                                 THEN getXvsBridgeStatus(toChainId)
                                                 ELSE NoData,
                      getTokenUsdPriceData   |-> tokenPriceData,
                      walletBalanceTokens    |-> walletBalanceTokens,
                      chainId                |-> chainId,
                      formFromChainId        |-> form.fromChainId]
    /\ toChainIdRef' = form.toChainId
    /\ pc' = "effects"
    /\ UNCHANGED <<chains, chainId, form, tokenPriceData, walletBalanceTokens,
                   statusCache, validation, legacyVars>>

\* A bug: the destination is always the BNB chain.
syncedToChainIdAlwaysBsc(cs, id, previousFromChainId) == bscChainId(cs)

\* The toChainId the chain-sync effect sets when the wallet's chain is id.
syncedToChainId(cs, id, previousFromChainId) ==
    IF id # "BSC_MAINNET" /\ id # "BSC_TESTNET" THEN bscChainId(cs)
    ELSE previousFromChainId

\* The chain-sync effect of the latest render.
ChainSyncEffect ==
    /\ pc = "effects"
    /\ IF render.chainId # render.formFromChainId
       THEN /\ form' = [form EXCEPT
                           !.fromChainId = render.chainId,
                           !.toChainId   = syncedToChainId(chains, render.chainId,
                                                           render.formFromChainId)]
            /\ pc' = "dirty"
       ELSE /\ form' = form
            /\ pc' = "idle"
    /\ UNCHANGED <<chains, chainId, toChainIdRef, tokenPriceData, walletBalanceTokens,
                   statusCache, render, validation, legacyVars>>

\* The bridge status query of the latest render resolves.
BridgeStatusFetched ==
    /\ pc \in {"idle", "dirty"}
    /\ render.toChainId # Undefined
    /\ render.toChainId \notin statusCache
    /\ statusCache' = statusCache \cup {render.toChainId}
    /\ pc' = "dirty"
    /\ UNCHANGED <<chains, chainId, form, toChainIdRef, tokenPriceData,
                   walletBalanceTokens, render, validation, legacyVars>>

\* The token price query resolves.
TokenPriceFetched(p) ==
    /\ pc \in {"idle", "dirty"}
    /\ ~tokenPriceData.defined
    /\ tokenPriceData' = PriceData(p)
    /\ pc' = "dirty"
    /\ UNCHANGED <<chains, chainId, form, toChainIdRef, walletBalanceTokens,
                   statusCache, render, validation, legacyVars>>

\* ChainSelect, the header dropdown: onChange switches the wallet's chain.
SwitchChain(newChainId) ==
    /\ pc \in {"idle", "dirty"}
    /\ newChainId # chainId
    /\ chainId' = newChainId
    /\ pc' = "dirty"
    /\ UNCHANGED <<chains, form, toChainIdRef, tokenPriceData, walletBalanceTokens,
                   statusCache, render, validation, legacyVars>>

\* A field of the form changes: with mode 'all' the resolver of the latest
\* render runs on the new values, and form.watch() asks for a render.
ChangeField(newForm) ==
    /\ pc \in {"idle", "dirty"}
    /\ newForm # form
    /\ form' = newForm
    /\ validation' = resolve(newForm, render, FALSE)
    /\ pc' = "dirty"
    /\ UNCHANGED <<chains, chainId, toChainIdRef, tokenPriceData, walletBalanceTokens,
                   statusCache, render, legacyVars>>

ChangeAmountTokens(v) == ChangeField([form EXCEPT !.amountTokens = v])

ChangeFromChainId(c) == ChangeField([form EXCEPT !.fromChainId = c])

ChangeToChainId(c) == ChangeField([form EXCEPT !.toChainId = c])

\* The form is validated as it stands (a blur, trigger(), handleSubmit).
TriggerValidation ==
    /\ pc \in {"idle", "dirty"}
    /\ validation' = resolve(form, render, pc = "idle")
    /\ UNCHANGED <<chains, chainId, form, toChainIdRef, tokenPriceData,
                   walletBalanceTokens, statusCache, render, pc, legacyVars>>

NextHeader ==
    \/ Render
    \/ ChainSyncEffect
    \/ BridgeStatusFetched
    \/ \E p \in 0..MaxPriceUsd : TokenPriceFetched(p)
    \/ \E c \in ChainIds(chains) : SwitchChain(c)
    \/ \E v \in TypedAmounts : ChangeAmountTokens(v)
    \/ TriggerValidation

Next ==
    \/ NextHeader
    \/ \E c \in ChainIds(chains) : ChangeFromChainId(c)
    \/ \E c \in ChainIds(chains) : ChangeToChainId(c)

Init == InitBridge /\ LegacyIdle

\* The hook with every way its state changes.
Spec == Init /\ [][Next]_vars

\* The hook when the chain is only changed from the header dropdown.
SpecHeader == Init /\ [][NextHeader]_vars

\* The form schema applied to drawn inputs: amount, price, balance, status.
InitValidator ==
    /\ chains = MainnetChains
    /\ chainId = "BSC_MAINNET"
    /\ \E v \in AmountStrings :
           form = [defaultValues(chains, chainId) EXCEPT !.amountTokens = v]
    /\ toChainIdRef = form.toChainId
    /\ tokenPriceData \in TokenPriceDatas
    /\ walletBalanceTokens \in WalletBalances
    /\ statusCache = {}
    /\ \E status \in {NoData} \cup BridgeStatuses :
           render = [NotRendered(chainId) EXCEPT
                        !.toChainId              = form.toChainId,
                        !.getXvsBridgeStatusData = status,
                        !.getTokenUsdPriceData   = tokenPriceData,
                        !.walletBalanceTokens    = walletBalanceTokens]
    /\ pc = "idle"
    /\ validation = NotValidated
    /\ LegacyIdle

SpecValidator == InitValidator /\ [][TriggerValidation]_vars

InitLegacyPool ==
    /\ chains = MainnetChains
    /\ chainId = "BSC_MAINNET"
    /\ form = defaultValues(chains, chainId)
    /\ toChainIdRef = Undefined
    /\ tokenPriceData = NoData
    /\ walletBalanceTokens = 0
    /\ statusCache = {}
    /\ render = NotRendered(chainId)
    /\ pc = "mount"
    /\ validation = NotValidated
    /\ LegacyIdle

SpecLegacyPool == InitLegacyPool /\ [][NextLegacyPool]_vars

----------------------------------------------------------------------------
(* The amount validator, checked under SpecValidator.  The inputs of the   *)
(* validation are read as integers: the price and the limits in USD (zero  *)
(* while their query holds no data), the balance in tokens, and the amount *)
(* as the fraction AmountN / AmountD.                                      *)

HasIssue(path) ==
    \E i \in 1..Len(validation.issues) : validation.issues[i].path = path

AmountIsNumeric == isNumeric(validation.amountTokens)

AmountN == BigNumberOf(validation.amountTokens).n

AmountD == BigNumberOf(validation.amountTokens).d

TokenPriceUsd ==
    IF render.getTokenUsdPriceData.defined
    THEN render.getTokenUsdPriceData.tokenPriceUsd.n ELSE 0

MaxSingleUsd ==
    IF render.getXvsBridgeStatusData.defined
    THEN render.getXvsBridgeStatusData.maxSingleTransactionLimitUsd.n ELSE 0

RemainingDailyUsd ==
    IF render.getXvsBridgeStatusData.defined
    THEN render.getXvsBridgeStatusData.maxDailyLimitUsd.n
         - render.getXvsBridgeStatusData.totalTransferredLast24HourUsd.n
    ELSE 0

ResetTimestamp ==
    IF render.getXvsBridgeStatusData.defined
    THEN render.getXvsBridgeStatusData.dailyLimitResetTimestamp.n ELSE 0

\* C1: for a numeric amount each of the three violations is reported exactly
\* when its own condition holds, whatever the other two are: the single limit
\* iff amount * price > maxSingleTransactionLimitUsd, the daily limit iff
\* amount * price > maxDailyLimitUsd - totalTransferredLast24HourUsd, the
\* balance iff walletBalanceTokens < amount.
C1_EachViolationIffItsCondition ==
    (validation.done /\ AmountIsNumeric) =>
        /\ HasIssue("singleTransactionLimitExceeded")
               <=> (AmountN * TokenPriceUsd > MaxSingleUsd * AmountD)
        /\ HasIssue("dailyTransactionLimitExceeded")
               <=> (AmountN * TokenPriceUsd > RemainingDailyUsd * AmountD)
        /\ HasIssue("doesNotHaveEnoughXvs")
               <=> (render.walletBalanceTokens * AmountD < AmountN)

\* The balance and the single-transaction violations are reported together,
\* the daily limit having room.
C1_TwoViolationsTogether ==
    /\ validation.done
    /\ AmountIsNumeric
    /\ HasIssue("singleTransactionLimitExceeded")
    /\ HasIssue("doesNotHaveEnoughXvs")
    /\ ~HasIssue("dailyTransactionLimitExceeded")

\* C2: an amount within the single-transaction limit, within the remaining
\* daily limit and within the wallet balance yields no violation at all.
C2_WithinLimitsIsValid ==
    (/\ validation.done
     /\ AmountIsNumeric
     /\ AmountN * TokenPriceUsd <= MaxSingleUsd * AmountD
     /\ AmountN * TokenPriceUsd <= RemainingDailyUsd * AmountD
     /\ AmountN <= render.walletBalanceTokens * AmountD)
        => validation.issues = <<>>

\* A positive amount that is exactly the single-transaction limit and exactly
\* the wallet balance is valid.
C2_ValidAtTheLimits ==
    /\ validation.done
    /\ AmountIsNumeric
    /\ AmountN > 0
    /\ AmountN * TokenPriceUsd = MaxSingleUsd * AmountD
    /\ AmountN = render.walletBalanceTokens * AmountD
    /\ validation.issues = <<>>

\* C3: an amountTokens that is empty or not a number never passes the schema.
C3_NonNumericIsRejected ==
    (validation.done /\ ~AmountIsNumeric) => validation.issues # <<>>

\* C4: with a token price of zero the remaining daily limit in tokens is 0,
\* and no issue carries the outcome of a division by zero.
C4_ZeroPriceNoDivisionFault ==
    isZero(xvsPriceUsd(render)) =>
        /\ remainingXvsDailyLimitTokens(render) = BigNumber(0)
        /\ \A i \in 1..Len(validation.issues) :
               validation.issues[i].path \in {"singleTransactionLimitExceeded",
                                              "dailyTransactionLimitExceeded"}
                   => isFinite(validation.issues[i].readableAmountTokens)

\* The daily limit is reported exceeded at a price of zero.
C4_DailyLimitExceededAtZeroPrice ==
    /\ validation.done
    /\ render.getTokenUsdPriceData.defined
    /\ TokenPriceUsd = 0
    /\ render.getXvsBridgeStatusData.defined
    /\ HasIssue("dailyTransactionLimitExceeded")

\* C6: a daily-limit issue carries the remaining daily limit in USD, that
\* limit in tokens (times the price it is the USD limit; 0 at a price of 0)
\* and the reset instant plus one day; a single-limit issue carries
\* maxSingleTransactionLimitUsd and that limit in tokens.
C6_IssuesCarryTheLimits ==
    \A i \in 1..Len(validation.issues) :
        LET issue  == validation.issues[i]
            tokens == issue.readableAmountTokens
        IN  /\ issue.path = "dailyTransactionLimitExceeded" =>
                /\ issue.readableAmountUsd = BigNumber(RemainingDailyUsd)
                /\ isFinite(tokens)
                /\ IF TokenPriceUsd = 0 THEN tokens.n = 0
                   ELSE tokens.n * TokenPriceUsd = RemainingDailyUsd * tokens.d
                /\ issue.date.day * 86400 + issue.date.sec = ResetTimestamp + 86400
            /\ issue.path = "singleTransactionLimitExceeded" =>
                /\ issue.readableAmountUsd = BigNumber(MaxSingleUsd)
                /\ isFinite(tokens)
                /\ tokens.n * TokenPriceUsd = MaxSingleUsd * tokens.d

\* Both limits are reported exceeded, with a price and a bridge status loaded.
C6_BothLimitsExceeded ==
    /\ validation.done
    /\ render.getTokenUsdPriceData.defined
    /\ render.getXvsBridgeStatusData.defined
    /\ HasIssue("dailyTransactionLimitExceeded")
    /\ HasIssue("singleTransactionLimitExceeded")

----------------------------------------------------------------------------
(* The hook, checked under Spec and SpecHeader.                            *)

isBnbChain(c) == c \in {"BSC_MAINNET", "BSC_TESTNET"}

\* C5: a validation that runs once the hook has rendered and its effects have
\* run uses the limits of the bridge towards the form's current toChainId.
C5_LimitsOfCurrentToChainId ==
    (validation.done /\ validation.rendered /\ validation.statusToChainId # Undefined)
        => validation.statusToChainId = validation.formToChainId

\* C7: once the chain-sync effect has run, a BNB chain is the origin or the
\* destination of the bridge operation.
C7_BnbChainIsOriginOrDestination ==
    pc = "idle" => (isBnbChain(form.fromChainId) \/ isBnbChain(form.toChainId))

\* C8: when the chain only changes from the header dropdown, once the
\* chain-sync effect has run fromChainId is the wallet's chain and toChainId
\* is another chain.
C8_FromIsWalletChainToDiffers ==
    pc = "idle" => (form.fromChainId = chainId /\ form.toChainId # form.fromChainId)

\* The effect has swapped the chains after a switch: the status query is
\* still keyed by the former destination, which is now the origin.
C8_SyncedAfterSwitch ==
    /\ pc = "idle"
    /\ form.fromChainId = chainId
    /\ render.toChainId = form.fromChainId

----------------------------------------------------------------------------
(* useGetLegacyPool, checked under SpecLegacyPool.                         *)

\* C9: an enabled query has every dependency its query function hands to
\* callOrThrow, so its query function never throws for a missing one.
C9_EnabledQueryHasItsDependencies ==
    /\ isQueryEnabled(deps, optionsEnabled) => \A p \in callOrThrowParams : deps[p]
    /\ query # "error"

====
